---- MODULE Spec2Model ----
(***************************************************************************)
(* A model of vulkan::VulkanApplication (src/vulkan/vulkan_application.cc):*)
(* the construction protocol of the Vulkan instance, the ownership of the  *)
(* instance handle, the enumeration of the physical devices and the        *)
(* selection of the first compatible logical device.                       *)
(*                                                                         *)
(* The Vulkan proc table (vk), the debugging toggle, VulkanDebugReport and *)
(* VulkanDevice are the environment: every status, handle and validity     *)
(* they report is drawn from a small set by the action that calls them.    *)
(***************************************************************************)
EXTENDS Integers, Sequences, FiniteSets

\* ------------------------------------------------------------- bounds

\* The largest device count an EnumeratePhysicalDevices call reports.
MaxCount == 3
\* The longest extension list a caller passes to the constructor.
MaxExtensions == 2
\* The number of ReleaseInstanceOwnership() calls made on one builder.
MaxReleaseCalls == 2

\* ---------------------------------------------------------- the values

VK_NULL_HANDLE == 0
VK_SUCCESS == "VK_SUCCESS"
VK_INCOMPLETE == "VK_INCOMPLETE"
VK_ERROR == "VK_ERROR_INITIALIZATION_FAILED"
NotCalled == "not called"

\* The non-null VkInstance handles CreateInstance may write.
InstanceHandles == {1, 2}
\* The non-null VkPhysicalDevice handles an enumeration may write.
DeviceHandles == {1, 2}
\* The uint32_t versions a caller passes (application_version, api_version).
Versions == {10, 11}

DebugExtensionName == "VK_EXT_debug_report"
ExtensionNames == {"VK_KHR_surface", DebugExtensionName}

SeqsUpTo(S, n) == UNION {[1..k -> S] : k \in 0..n}

ExtensionLists == SeqsUpTo(ExtensionNames, MaxExtensions)

\* -------------------------------------------------------------- state

VARIABLES
  pc,             \* "uninit" | "alive" | "destroyed": the builder's lifetime
  ctor,           \* the constructor's arguments and what the environment answered
  valid_,         \* VulkanApplication::valid_
  api_version_,   \* VulkanApplication::api_version_
  instance_,      \* the handle held by VulkanHandle<VkInstance> instance_
  debug_report_,  \* the instance debug_report_ is bound to; VK_NULL_HANDLE: nullptr
  owner,          \* the handle an external owner took over; VK_NULL_HANDLE: none
  release_calls,  \* the number of ReleaseInstanceOwnership() calls so far
  calls,          \* the lifecycle calls made so far, in order
  ret             \* what the call that has just returned did, until dropped

vars == <<pc, ctor, valid_, api_version_, instance_, debug_report_, owner,
          release_calls, calls, ret>>

Call(fn, by, arg) == [fn |-> fn, by |-> by, arg |-> arg]

NoCtor ==
  [enabled_extensions |-> <<>>, api_version |-> 10,
   debugging |-> FALSE, supported |-> FALSE, create_extensions |-> <<>>,
   create_extension_count |-> 0,
   create_result |-> NotCalled, created |-> VK_NULL_HANDLE,
   setup |-> NotCalled, report |-> NotCalled]

NoRet ==
  [op |-> "none", r1 |-> NotCalled, count |-> 0, r2 |-> NotCalled,
   written |-> <<>>, devices |-> <<>>, enumerate_calls |-> 0,
   enumerated_on |-> VK_NULL_HANDLE,
   ok |-> <<>>, constructed |-> <<>>, events |-> <<>>, device |-> 0]

Init ==
  /\ pc = "uninit"
  /\ ctor = NoCtor
  /\ valid_ = FALSE
  /\ api_version_ = 10
  /\ instance_ = VK_NULL_HANDLE
  /\ debug_report_ = VK_NULL_HANDLE
  /\ owner = VK_NULL_HANDLE
  /\ release_calls = 0
  /\ calls = <<>>
  /\ ret = NoRet

\* ---------------------------------------------------- the constructor

\* enable_instance_debugging: the toggle and the capability query.
EnableInstanceDebugging(debugging, supported) == debugging /\ supported

\* A list with the debug extension name put in front of the caller's names.
EnabledExtensions_Prepend(enabled_extensions, enable) ==
  IF enable THEN <<DebugExtensionName>> \o enabled_extensions
            ELSE enabled_extensions

\* The extension list after "Configure extensions".
EnabledExtensions(enabled_extensions, enable) ==
  IF enable THEN Append(enabled_extensions, DebugExtensionName)
            ELSE enabled_extensions

\* The array const char* extensions[]: the c_str() of each element, by index.
ExtensionPointers(enabled_extensions) ==
  [i \in 1..Len(enabled_extensions) |-> enabled_extensions[i]]

\* create_info.enabledExtensionCount: the size() cast to uint32_t, which keeps
\* the value of every size below 2^32.
ExtensionCount(enabled_extensions) == Len(enabled_extensions)

\* An initialiser that takes the wrong one of the two uint32_t arguments.
StoredApiVersion_Swapped(application_version, api_version) ==
  application_version

\* The member initialiser api_version_(api_version).
StoredApiVersion(application_version, api_version) == api_version

\* A constructor without the early return on a failed CreateInstance.
SetupReached_Always(result) == TRUE

\* The constructor goes on past the CreateInstance check.
SetupReached(result) == result = VK_SUCCESS

\* A constructor without the early return on a failed proc setup.
WrapReached_NoProcCheck(result, procs) == SetupReached(result)

\* The constructor goes on past the SetupInstanceProcAddresses check and
\* assigns instance_.
WrapReached(result, procs) == SetupReached(result) /\ procs

\* A constructor that attaches the debug report whatever was decided.
DebugReportAttempted_Always(wrapped, enable) == wrapped

\* A constructor that wraps the handle right after CreateInstance.
HeldInstance_Early(wrapped, instance) == instance

\* The handle instance_ holds when the constructor returns: the created one
\* once instance_ was assigned, the null handle of a default VulkanHandle else.
HeldInstance(wrapped, instance) ==
  IF wrapped THEN instance ELSE VK_NULL_HANDLE

\* A VulkanDebugReport is constructed.
DebugReportAttempted(wrapped, enable) == wrapped /\ enable

\* The constructed VulkanDebugReport is moved into debug_report_.
DebugReportKept(attempted, report_valid) == attempted /\ report_valid

\* A constructor that returns early when the debug report is invalid.
ValidReached_NeedsReport(wrapped, attempted, report_valid) ==
  wrapped /\ (attempted => report_valid)

\* valid_ = true is reached only at the end of the constructor.
ValidReached(wrapped, attempted, report_valid) == wrapped

VulkanApplication ==
  /\ pc = "uninit"
  /\ \E enabled_extensions \in ExtensionLists,
        application_version \in Versions, api_version \in Versions,
        debugging \in BOOLEAN, supported \in BOOLEAN,
        result \in {VK_SUCCESS, VK_ERROR}, handle \in InstanceHandles,
        procs \in BOOLEAN, report_valid \in BOOLEAN :
       LET enable == EnableInstanceDebugging(debugging, supported)
           extensions == EnabledExtensions(enabled_extensions, enable)
           instance == IF result = VK_SUCCESS THEN handle ELSE VK_NULL_HANDLE
           setup == SetupReached(result)
           wrapped == WrapReached(result, procs)
           attempted == DebugReportAttempted(wrapped, enable)
           kept == DebugReportKept(attempted, report_valid)
       IN /\ ctor' = [enabled_extensions |-> enabled_extensions,
                      api_version |-> api_version,
                      debugging |-> debugging, supported |-> supported,
                      create_extensions |-> ExtensionPointers(extensions),
                      create_extension_count |-> ExtensionCount(extensions),
                      create_result |-> result, created |-> instance,
                      setup |-> IF ~setup THEN NotCalled
                                ELSE IF procs THEN "ok" ELSE "failed",
                      report |-> IF ~attempted THEN NotCalled
                                 ELSE IF report_valid THEN "valid" ELSE "invalid"]
          /\ api_version_' = StoredApiVersion(application_version, api_version)
          /\ instance_' = HeldInstance(wrapped, instance)
          /\ debug_report_' = IF kept THEN instance ELSE VK_NULL_HANDLE
          /\ valid_' = ValidReached(wrapped, attempted, report_valid)
          /\ calls' =
               <<Call("CreateInstance", "builder", instance)>>
               \o (IF setup
                   THEN <<Call("SetupInstanceProcAddresses", "builder", instance)>>
                   ELSE <<>>)
               \o (IF wrapped
                   THEN <<Call("VulkanHandle", "builder", instance)>>
                   ELSE <<>>)
               \o (IF attempted
                   THEN <<Call("VulkanDebugReport", "builder", instance)>>
                   ELSE <<>>)
               \o (IF attempted /\ ~kept
                   THEN <<Call("~VulkanDebugReport", "builder", instance)>>
                   ELSE <<>>)
               \o (IF ValidReached(wrapped, attempted, report_valid)
                   THEN <<Call("valid_", "builder", instance)>>
                   ELSE <<>>)
  /\ pc' = "alive"
  /\ UNCHANGED <<owner, release_calls, ret>>

\* ------------------------------------------------------ the accessors

IsValid == valid_
GetAPIVersion == api_version_
GetInstance == instance_

\* ------------------------------------------- ownership of the instance

\* The releaser bound to instance_: vk.DestroyInstance(i, nullptr).
InstanceReleaser(i) == <<Call("DestroyInstance", "builder", i)>>

\* VulkanHandle<VkInstance>::ReleaseOwnership(): hands the raw handle out and
\* leaves the wrapper holding the null handle.
ReleaseOwnership(handle) == [returned |-> handle, held |-> VK_NULL_HANDLE]

\* VulkanHandle<VkInstance>::~VulkanHandle(): the releaser runs only on a
\* non-null handle.
VulkanHandleDispose(handle) ==
  IF handle # VK_NULL_HANDLE THEN InstanceReleaser(handle) ELSE <<>>

\* The members' destruction: debug_report_ goes before instance_.
MemberDestruction(debug_report, instance) ==
  (IF debug_report # VK_NULL_HANDLE
   THEN <<Call("~VulkanDebugReport", "builder", debug_report)>>
   ELSE <<>>)
  \o VulkanHandleDispose(instance)

\* A ReleaseInstanceOwnership() that reads the handle and leaves it wrapped.
ReleaseInstanceOwnership_KeepsHandle ==
  /\ pc = "alive"
  /\ ret = NoRet
  /\ release_calls < MaxReleaseCalls
  /\ owner' = IF instance_ # VK_NULL_HANDLE THEN instance_ ELSE owner
  /\ release_calls' = release_calls + 1
  /\ UNCHANGED <<pc, ctor, valid_, api_version_, instance_, debug_report_,
                 calls, ret>>

\* A ReleaseInstanceOwnership() that also marks the builder invalid.
ReleaseInstanceOwnership_Invalidates ==
  /\ pc = "alive"
  /\ ret = NoRet
  /\ release_calls < MaxReleaseCalls
  /\ instance_' = VK_NULL_HANDLE
  /\ owner' = IF instance_ # VK_NULL_HANDLE THEN instance_ ELSE owner
  /\ valid_' = FALSE
  /\ release_calls' = release_calls + 1
  /\ UNCHANGED <<pc, ctor, api_version_, debug_report_, calls, ret>>

\* ReleaseInstanceOwnership() drops the handle ReleaseOwnership() returns: the
\* external owner is the one who read it through GetInstance() beforehand.
ReleaseInstanceOwnership ==
  /\ pc = "alive"
  /\ ret = NoRet
  /\ release_calls < MaxReleaseCalls
  /\ LET r == ReleaseOwnership(instance_)
     IN /\ instance_' = r.held
        /\ owner' = IF r.returned # VK_NULL_HANDLE THEN r.returned ELSE owner
  /\ release_calls' = release_calls + 1
  /\ UNCHANGED <<pc, ctor, valid_, api_version_, debug_report_, calls, ret>>

\* ~VulkanApplication() = default.
VulkanApplicationDtor ==
  /\ pc = "alive"
  /\ ret = NoRet
  /\ calls' = calls \o MemberDestruction(debug_report_, instance_)
  /\ instance_' = VK_NULL_HANDLE
  /\ debug_report_' = VK_NULL_HANDLE
  /\ pc' = "destroyed"
  /\ UNCHANGED <<ctor, valid_, api_version_, owner, release_calls, ret>>

\* The calls DestroyInstance(h) made so far by `by`.
DestroyCalls(by, h) ==
  {i \in 1..Len(calls) : calls[i] = Call("DestroyInstance", by, h)}

\* The external owner destroys, once, the instance it took over.
ExternalDestroyInstance ==
  /\ owner # VK_NULL_HANDLE
  /\ DestroyCalls("owner", owner) = {}
  /\ ret = NoRet
  /\ calls' = Append(calls, Call("DestroyInstance", "owner", owner))
  /\ UNCHANGED <<pc, ctor, valid_, api_version_, instance_, debug_report_,
                 owner, release_calls, ret>>

\* ------------------------------------------------ the physical devices

\* A GetPhysicalDevices() without the IsValid() check.
EnumerationStarts_Always(valid) == TRUE

\* GetPhysicalDevices() goes on past the IsValid() check.
EnumerationStarts(valid) == valid

\* GetPhysicalDevices() goes on to the second (fill) call.
FillReached(r1, count) == r1 = VK_SUCCESS /\ count # 0

\* What the fill call may write into a buffer of `count` handles: on
\* VK_SUCCESS the devices there are, at most count; on VK_INCOMPLETE exactly
\* count of more; on an error nothing.
WrittenBy(r2, count) ==
  IF r2 = VK_SUCCESS THEN SeqsUpTo(DeviceHandles, count)
  ELSE IF r2 = VK_INCOMPLETE THEN [1..count -> DeviceHandles]
  ELSE {<<>>}

\* The vector returned after the fill call: resize(device_count) made count
\* null handles, the fill call overwrote the first Len(written) of them, and
\* the count the fill call reports back is not read.
PhysicalDevices(r2, count, written) ==
  IF r2 # VK_SUCCESS THEN <<>>
  ELSE [i \in 1..count |->
          IF i <= Len(written) THEN written[i] ELSE VK_NULL_HANDLE]

\* Every way one GetPhysicalDevices() call can go on a builder whose valid_
\* is `valid` and whose instance_ holds `instance`.
Enumerations(valid, instance) ==
  IF ~EnumerationStarts(valid)
  THEN {[NoRet EXCEPT !.op = "GetPhysicalDevices"]}
  ELSE {[NoRet EXCEPT !.op = "GetPhysicalDevices", !.r1 = q[1],
                      !.count = q[2], !.enumerate_calls = 1,
                      !.enumerated_on = instance] :
          q \in {x \in {VK_SUCCESS, VK_ERROR} \X (0..MaxCount) :
                   ~FillReached(x[1], x[2])}}
       \cup
       UNION {UNION {
         {[NoRet EXCEPT !.op = "GetPhysicalDevices", !.r1 = VK_SUCCESS,
                        !.count = c, !.r2 = r2, !.written = w,
                        !.devices = PhysicalDevices(r2, c, w),
                        !.enumerate_calls = 2, !.enumerated_on = instance] :
            w \in WrittenBy(r2, c)} :
          r2 \in {VK_SUCCESS, VK_INCOMPLETE, VK_ERROR}} :
          c \in {n \in 0..MaxCount : FillReached(VK_SUCCESS, n)}}

GetPhysicalDevices ==
  /\ pc = "alive"
  /\ ret = NoRet
  /\ \E r \in Enumerations(valid_, instance_) : ret' = r
  /\ UNCHANGED <<pc, ctor, valid_, api_version_, instance_, debug_report_,
                 owner, release_calls, calls>>

\* ------------------------------------------------- the device selector

\* The loop of AcquireFirstCompatibleLogicalDevice() from index i on: ok[i]
\* is what the VulkanDevice made from devices[i] answers to IsValid(), should
\* it be constructed. `events` lists, in order, the VulkanDevices made
\* (make_unique) and destroyed (the unique_ptr logical_device leaving the loop
\* body) by index; `device` is the index of the one returned (0: nullptr).
New(i) == [ev |-> "new", index |-> i]
Delete(i) == [ev |-> "delete", index |-> i]

\* A loop that keeps every rejected candidate until it returns.
RECURSIVE Scan_KeepsRejected(_, _, _, _)
Scan_KeepsRejected(devices, ok, i, made) ==
  IF i > Len(devices) \/ ok[i]
  THEN [events |->
          (IF i > Len(devices) THEN made ELSE Append(made, New(i)))
          \o [j \in 1..(i - 1) |-> Delete(j)],
        device |-> IF i > Len(devices) THEN 0 ELSE i]
  ELSE Scan_KeepsRejected(devices, ok, i + 1, Append(made, New(i)))

RECURSIVE Scan(_, _, _, _)
Scan(devices, ok, i, made) ==
  IF i > Len(devices) THEN [events |-> made, device |-> 0]
  ELSE IF ok[i] THEN [events |-> Append(made, New(i)), device |-> i]
  ELSE Scan(devices, ok, i + 1, Append(Append(made, New(i)), Delete(i)))

\* The indices a VulkanDevice was made for, in the order they were made.
RECURSIVE Constructed(_)
Constructed(events) ==
  IF events = <<>> THEN <<>>
  ELSE IF Head(events).ev = "new"
       THEN <<Head(events).index>> \o Constructed(Tail(events))
       ELSE Constructed(Tail(events))

\* A loop that goes on after a valid device and returns the last valid one.
FirstCompatible_NoShortCircuit(devices, ok) ==
  LET good == {i \in 1..Len(devices) : ok[i]}
      last == IF good = {} THEN 0
              ELSE CHOOSE i \in good : \A j \in good : j <= i
      all == Scan(devices, [i \in 1..Len(devices) |-> FALSE], 1, <<>>).events
  IN [constructed |-> [i \in 1..Len(devices) |-> i],
      events |-> SelectSeq(all, LAMBDA e : e # Delete(last)),
      device |-> last]

FirstCompatible(devices, ok) ==
  LET found == Scan(devices, ok, 1, <<>>)
  IN [constructed |-> Constructed(found.events),
      events |-> found.events,
      device |-> found.device]

AcquireFirstCompatibleLogicalDevice ==
  /\ pc = "alive"
  /\ ret = NoRet
  /\ \E r \in Enumerations(valid_, instance_) :
       \E ok \in [1..Len(r.devices) -> BOOLEAN] :
         LET found == FirstCompatible(r.devices, ok)
         IN ret' = [r EXCEPT !.op = "AcquireFirstCompatibleLogicalDevice",
                             !.ok = [j \in 1..Len(found.constructed) |->
                                       ok[found.constructed[j]]],
                             !.constructed = found.constructed,
                             !.events = found.events,
                             !.device = found.device]
  /\ UNCHANGED <<pc, ctor, valid_, api_version_, instance_, debug_report_,
                 owner, release_calls, calls>>

\* The caller drops the vector or the device the last call returned; the
\* builder is single-threaded, so the next operation starts after that.
DropResult ==
  /\ ret # NoRet
  /\ ret' = NoRet
  /\ UNCHANGED <<pc, ctor, valid_, api_version_, instance_, debug_report_,
                 owner, release_calls, calls>>

\* -------------------------------------------------- the specification

Next ==
  \/ VulkanApplication
  \/ ReleaseInstanceOwnership
  \/ GetPhysicalDevices
  \/ AcquireFirstCompatibleLogicalDevice
  \/ DropResult
  \/ VulkanApplicationDtor
  \/ ExternalDestroyInstance

Spec == Init /\ [][Next]_vars

\* ------------------------------------------------------- the properties

\* What the environment answered during construction.
CreateSucceeded == ctor.create_result = VK_SUCCESS
SetupSucceeded == ctor.setup = "ok"
SetupFailed == ctor.setup = "failed"

\* The DestroyInstance(h) calls made so far, by the builder and by the owner.
Released(h) ==
  Cardinality(DestroyCalls("builder", h)) + Cardinality(DestroyCalls("owner", h))

Made(fn) == {i \in 1..Len(calls) : calls[i].fn = fn}

Elements(seq) == {seq[i] : i \in 1..Len(seq)}

\* C1: a constructed builder is valid exactly when CreateInstance returned
\* VK_SUCCESS and SetupInstanceProcAddresses returned true; when either
\* failed the builder is invalid and GetInstance() holds the null handle.
C1_ValidIffCreatedAndResolved ==
  pc = "alive" =>
    /\ IsValid <=> (CreateSucceeded /\ SetupSucceeded)
    /\ ~(CreateSucceeded /\ SetupSucceeded) =>
         ~IsValid /\ GetInstance = VK_NULL_HANDLE

\* C1's case: CreateInstance succeeded, the proc setup failed, and the builder
\* is invalid and holds no instance.
C1_Witness ==
  /\ pc = "alive"
  /\ CreateSucceeded /\ SetupFailed
  /\ ~IsValid /\ GetInstance = VK_NULL_HANDLE

\* C2: once the builder has been constructed and destroyed, the handle a
\* successful CreateInstance wrote has been passed to DestroyInstance by the
\* builder (unless its ownership was handed to an external owner).
C2_CreatedInstanceReleased ==
  (pc = "destroyed" /\ ctor.created # VK_NULL_HANDLE /\ owner = VK_NULL_HANDLE)
    => DestroyCalls("builder", ctor.created) # {}

\* C3: a valid builder that was destroyed has called DestroyInstance on its
\* instance once if ReleaseInstanceOwnership() was never called and never
\* otherwise; after a transfer the external owner holds the handle; and with
\* the owner's destroy the instance is released exactly once, never twice.
C3_ReleasedExactlyOnce ==
  /\ CreateSucceeded => Released(ctor.created) <= 1
  /\ (pc = "destroyed" /\ valid_) =>
       /\ Cardinality(DestroyCalls("builder", ctor.created))
            = IF release_calls = 0 THEN 1 ELSE 0
       /\ release_calls > 0 => owner = ctor.created
       /\ (release_calls = 0 \/ DestroyCalls("owner", ctor.created) # {})
            => Released(ctor.created) = 1

\* C3's case: ReleaseInstanceOwnership() was called several times, the builder
\* was destroyed and the external owner destroyed the instance.
C3_Witness ==
  /\ pc = "destroyed" /\ valid_
  /\ release_calls >= 2
  /\ DestroyCalls("owner", ctor.created) # {}
  /\ DestroyCalls("builder", ctor.created) = {}

\* C4: AcquireFirstCompatibleLogicalDevice() makes a VulkanDevice for the
\* handles of the GetPhysicalDevices() sequence in order, from the first one,
\* and stops at the first that reports valid, which it returns; it returns
\* nullptr when it has made one for every handle and none reported valid.
C4_FirstValidInOrder ==
  ret.op = "AcquireFirstCompatibleLogicalDevice" =>
    LET n == Len(ret.devices)
        k == Len(ret.constructed)
    IN /\ k <= n
       /\ \A j \in 1..k : ret.constructed[j] = j
       /\ Len(ret.ok) = k
       /\ \A j \in 1..k : ret.ok[j] <=> (j = ret.device)
       /\ IF ret.device = 0 THEN k = n ELSE k = ret.device

\* C4's case: three physical devices of which the second is the first valid
\* one: the device of the second handle is returned, the third is not made.
C4_Witness ==
  /\ ret.op = "AcquireFirstCompatibleLogicalDevice"
  /\ Len(ret.devices) = 3
  /\ ret.devices[1] # ret.devices[2]
  /\ ret.ok = <<FALSE, TRUE>>
  /\ ret.device = 2
  /\ ret.constructed = <<1, 2>>

\* C5: GetPhysicalDevices() on an invalid builder returns the empty sequence
\* and makes no EnumeratePhysicalDevices call.
C5_InvalidEnumeratesNothing ==
  (ret.op = "GetPhysicalDevices" /\ ~IsValid) =>
    /\ ret.devices = <<>>
    /\ ret.enumerate_calls = 0
    /\ ret.r1 = NotCalled /\ ret.r2 = NotCalled

\* C5's case: GetPhysicalDevices() has returned on a builder whose proc setup
\* failed.
C5_Witness ==
  /\ ret.op = "GetPhysicalDevices"
  /\ pc = "alive" /\ ~IsValid
  /\ CreateSucceeded /\ SetupFailed
  /\ ret.devices = <<>>

\* C6: when debugging is enabled and supported, CreateInstance and the proc
\* setup succeed and the VulkanDebugReport made reports invalid, the builder
\* is valid and holds no debug report.
C6_InvalidReportKeepsValid ==
  (/\ pc = "alive"
   /\ ctor.debugging /\ ctor.supported
   /\ CreateSucceeded /\ SetupSucceeded
   /\ ctor.report # "valid")
    => /\ IsValid
       /\ debug_report_ = VK_NULL_HANDLE
       /\ ctor.report = "invalid"

\* C6's case: the debug report was made, reported invalid and was discarded,
\* and the builder is valid.
C6_Witness ==
  /\ pc = "alive"
  /\ ctor.debugging /\ ctor.supported
  /\ ctor.report = "invalid"
  /\ Made("~VulkanDebugReport") # {}
  /\ IsValid
  /\ debug_report_ = VK_NULL_HANDLE

\* C7: GetAPIVersion() returns the api_version passed to the constructor in
\* every state of a constructed builder, valid or not, whatever was called.
C7_ApiVersionAsPassed ==
  pc = "alive" => GetAPIVersion = ctor.api_version

\* C7's case: an invalid builder, after ReleaseInstanceOwnership() and a
\* device query, still answers the version passed, here not the default.
C7_Witness ==
  /\ pc = "alive" /\ ~IsValid
  /\ release_calls > 0
  /\ ret.op = "AcquireFirstCompatibleLogicalDevice"
  /\ ctor.api_version = 11
  /\ GetAPIVersion = 11

\* C8: on a valid builder GetPhysicalDevices() returns the empty sequence when
\* the count query fails, reports zero devices or the fill query fails, and
\* otherwise exactly the handles the fill call wrote, in order, none added.
C8_DevicesAsWritten ==
  (ret.op = "GetPhysicalDevices" /\ IsValid) =>
    IF ret.r1 # VK_SUCCESS \/ ret.count = 0 \/ ret.r2 # VK_SUCCESS
    THEN ret.devices = <<>>
    ELSE ret.devices = ret.written

\* C9: a debug report is never alive once DestroyInstance was called on the
\* instance it is bound to: its destruction comes before every such call.
C9_ReportGoesBeforeInstance ==
  /\ debug_report_ # VK_NULL_HANDLE =>
       /\ DestroyCalls("builder", debug_report_) = {}
       /\ DestroyCalls("owner", debug_report_) = {}
  /\ \A i \in Made("DestroyInstance") : \A j \in Made("~VulkanDebugReport") :
       calls[i].arg = calls[j].arg => j < i

\* C10: a debug report is held only if the toggle was on, the extension was
\* supported, the builder became valid and the report was valid; a held
\* report implies the debug extension name was passed to CreateInstance; and
\* a VulkanDebugReport is made only when the decision was true and both
\* CreateInstance and the proc setup succeeded.
C10_ReportOnlyWhenDecided ==
  pc # "uninit" =>
    /\ (debug_report_ # VK_NULL_HANDLE) =>
         /\ ctor.debugging /\ ctor.supported
         /\ IsValid
         /\ ctor.report = "valid"
         /\ DebugExtensionName \in Elements(ctor.create_extensions)
    /\ (Made("VulkanDebugReport") # {} \/ ctor.report # NotCalled) =>
         /\ ctor.debugging /\ ctor.supported
         /\ CreateSucceeded /\ SetupSucceeded
         /\ Cardinality(Made("VulkanDebugReport")) = 1

\* C10's case: the builder holds a debug report bound to its instance.
C10_Witness ==
  /\ pc = "alive"
  /\ debug_report_ # VK_NULL_HANDLE
  /\ debug_report_ = GetInstance
  /\ ctor.create_extensions
       = Append(ctor.enabled_extensions, DebugExtensionName)

\* C11: the extension list passed to CreateInstance is the caller's list, in
\* the caller's order with duplicates kept, followed by the debug extension
\* name as its last element exactly when the toggle is on and the extension
\* supported; the count passed is the length of that list.
C11_ExtensionsPassed ==
  pc # "uninit" =>
    LET asked == ctor.enabled_extensions
        passed == ctor.create_extensions
        enable == ctor.debugging /\ ctor.supported
    IN /\ Len(passed) = Len(asked) + (IF enable THEN 1 ELSE 0)
       /\ \A i \in 1..Len(asked) : passed[i] = asked[i]
       /\ enable => passed[Len(passed)] = DebugExtensionName
       /\ ctor.create_extension_count = Len(passed)

\* C11's case: the caller asked for the same extension twice and debugging is
\* enabled: both are passed, then the debug extension name.
C11_Witness ==
  /\ pc = "alive"
  /\ ctor.enabled_extensions = <<"VK_KHR_surface", "VK_KHR_surface">>
  /\ ctor.create_extensions
       = <<"VK_KHR_surface", "VK_KHR_surface", DebugExtensionName>>
  /\ ctor.create_extension_count = 3

\* The steps of the construction protocol, in the order of the protocol.
Steps ==
  <<"CreateInstance", "SetupInstanceProcAddresses", "VulkanHandle",
    "VulkanDebugReport", "valid_">>

\* C12: CreateInstance is called exactly once per construction;
\* SetupInstanceProcAddresses at most once and only after a successful
\* CreateInstance; the handle is wrapped only after a successful proc setup;
\* the debug report is made only after the handle is wrapped; valid_ is set
\* last; and no step follows a failed one.
C12_StrictOrder ==
  pc # "uninit" =>
    /\ Cardinality(Made("CreateInstance")) = 1
    /\ \A a \in 1..Len(Steps) : Cardinality(Made(Steps[a])) <= 1
    /\ \A a \in 1..Len(Steps) : \A b \in 1..Len(Steps) :
         a < b => \A i \in Made(Steps[a]) : \A j \in Made(Steps[b]) : i < j
    /\ Made("SetupInstanceProcAddresses") # {} => CreateSucceeded
    /\ Made("VulkanHandle") # {} =>
         Made("SetupInstanceProcAddresses") # {} /\ SetupSucceeded
    /\ Made("VulkanDebugReport") # {} => Made("VulkanHandle") # {}
    /\ Made("valid_") # {} => Made("VulkanHandle") # {}
    /\ ~CreateSucceeded =>
         \A a \in 2..Len(Steps) : Made(Steps[a]) = {}
    /\ SetupFailed =>
         \A a \in 3..Len(Steps) : Made(Steps[a]) = {}

\* C12's case: a construction that went through every step, the debug report
\* included.
C12_Witness ==
  /\ pc = "alive"
  /\ Len(calls) = 5
  /\ \A a \in 1..5 : calls[a].fn = Steps[a]

\* C13: on a constructed builder no operation changes what IsValid(),
\* GetAPIVersion() return or the debug report held, and a
\* ReleaseInstanceOwnership() call changes only the instance handle held.
C13_ValidityFixed ==
  [][(pc = "alive" /\ pc' = "alive") =>
       /\ valid_' = valid_
       /\ api_version_' = api_version_
       /\ debug_report_' = debug_report_
       /\ release_calls' # release_calls =>
            /\ instance_' = VK_NULL_HANDLE
            /\ UNCHANGED <<ctor, calls, ret>>]_vars

\* C13's case: a valid builder with a debug report, after
\* ReleaseInstanceOwnership() and a device query, is still valid and still
\* holds the report.
C13_Witness ==
  /\ pc = "alive" /\ IsValid
  /\ release_calls > 0
  /\ GetInstance = VK_NULL_HANDLE
  /\ debug_report_ # VK_NULL_HANDLE
  /\ ret.op = "GetPhysicalDevices"

\* C14: a builder whose construction failed holds the null handle and never
\* calls DestroyInstance, whether or not ReleaseInstanceOwnership() was called
\* before it was destroyed.
C14_InvalidNeverDestroys ==
  (pc # "uninit" /\ ~valid_) =>
    /\ GetInstance = VK_NULL_HANDLE
    /\ Made("DestroyInstance") = {}

\* C14's case: CreateInstance succeeded, the proc setup failed,
\* ReleaseInstanceOwnership() was called and the builder was destroyed: no
\* DestroyInstance call was made.
C14_Witness ==
  /\ pc = "destroyed" /\ ~valid_
  /\ CreateSucceeded /\ SetupFailed
  /\ release_calls > 0
  /\ Made("DestroyInstance") = {}

\* C15: a valid builder holds a non-null instance handle, and
\* EnumeratePhysicalDevices is never called with the null handle.
C15_ValidHoldsInstance ==
  /\ (pc = "alive" /\ IsValid) => GetInstance # VK_NULL_HANDLE
  /\ ret.enumerate_calls > 0 => ret.enumerated_on # VK_NULL_HANDLE

\* C16: one GetPhysicalDevices() makes at most two EnumeratePhysicalDevices
\* calls, the second only after the first succeeded with a count above zero,
\* and a non-empty result has exactly the handles the fill call wrote, as
\* many as the fill call reports.
C16_ResultIsWhatFillWrote ==
  ret.op # "none" =>
    /\ ret.enumerate_calls <= 2
    /\ ret.enumerate_calls = 2 => (ret.r1 = VK_SUCCESS /\ ret.count > 0)
    /\ ret.devices # <<>> =>
         /\ ret.r2 = VK_SUCCESS
         /\ Len(ret.devices) = Len(ret.written)
         /\ \A i \in 1..Len(ret.devices) : ret.devices[i] = ret.written[i]

\* The candidates alive after the first n events of the last call.
AliveAfter(n) ==
  {i \in 1..Len(ret.devices) :
     /\ \E a \in 1..n : ret.events[a] = New(i)
     /\ ~\E a \in 1..n : ret.events[a] = Delete(i)}

\* C17: AcquireFirstCompatibleLogicalDevice() on an invalid builder returns
\* nullptr, makes no VulkanDevice and no enumeration call; on any builder no
\* candidate is alive when the next one is made, and when the call returns
\* only the returned one is.
C17_OneCandidateAlive ==
  ret.op = "AcquireFirstCompatibleLogicalDevice" =>
    /\ ~IsValid =>
         /\ ret.device = 0
         /\ ret.events = <<>>
         /\ ret.enumerate_calls = 0
    /\ \A a \in 1..Len(ret.events) :
         ret.events[a].ev = "new" => AliveAfter(a - 1) = {}
    /\ AliveAfter(Len(ret.events)) = {ret.device} \ {0}
    /\ \A a \in 1..Len(ret.events) :
         ret.events[a].ev = "delete" => ret.events[a].index \in AliveAfter(a - 1)

\* C17's case: two candidates were rejected and destroyed and the third is
\* returned, the only one alive.
C17_Witness ==
  /\ ret.op = "AcquireFirstCompatibleLogicalDevice"
  /\ ret.events = <<New(1), Delete(1), New(2), Delete(2), New(3)>>
  /\ ret.device = 3
  /\ AliveAfter(Len(ret.events)) = {3}

====
